---------------------------- MODULE Spec2Model ----------------------------
(***************************************************************************)
(* Feed navigation and incremental pagination of the finance-news front    *)
(* end (the Index page component).  The state is the component's React     *)
(* state, the requests it has in flight, and a record of the last event    *)
(* handled; each action is one event handler or one continuation of an     *)
(* async function after its await.                                         *)
(***************************************************************************)
EXTENDS Integers, Sequences, FiniteSets, TLC

(* ----------------------------- program constants ----------------------- *)
BATCH_SIZE == 10
LOOKAHEAD == 3
SWIPE_THRESHOLD == 50

(* ----------------------------- bounds of the model --------------------- *)
\* longest collection the arbitrary backend lets the session build
MaxNews == 7
\* largest page number the arbitrary backend reports
MaxPage == 3
\* number of pages the batch backend holds
BatchPages == 3

\* the sessions explored: <<backend, pointer>>
\* (with the pointer "none" the user works the buttons only)
Profiles == {<<"any", "none">>, <<"batch", "coarse">>, <<"static", "fine">>}
\* <<clientX, clientY>> where the pointer goes down, per pointer
Down(p) == IF p = "fine" THEN <<101, 51>> ELSE <<101, 101>>
Downs(p) == IF p = "none" THEN {} ELSE {Down(p)}
\* <<clientX, clientY>> where the pointer goes up, per pointer
Ups(p) ==
  CASE p = "fine" -> {0, 50, 51, 101, 151, 152, 202} \X {0, 51, 102}
    [] p = "coarse" -> {<<101, 101>>, <<0, 101>>, <<202, 101>>, <<101, 0>>, <<101, 202>>}
    [] OTHER -> {}
\* what the user types into the question box, per pointer
Questions(p) == IF p = "fine" THEN {"", "q"} ELSE {}
\* page lengths the arbitrary backend serves
PageLens == {0, 2, 5}
\* how many ids of a served page repeat the newest ids already served
Overlaps == {0, 1}
\* length of the only page the static backend holds
StaticLen == 2

VARIABLES
  currentNewsIndex, currentView, startX, startY, isDragging,
  news, isInitialLoading, isFetchingMore, isBriefLoading,
  error, briefError, dailyBrief,
  currentPage, totalPages, totalNewsCount,
  backendUrl,   \* BACKEND_URL: "" when VITE_API_BASE_URL is not set
  backend,      \* which backend answers the requests
  pointer,      \* which pointer positions the user's gestures take
  initPc,       \* position of fetchInitialData: "mount", "fetching", "done"
  pending,      \* fetchMoreNews calls awaiting their response
  emptyPage,    \* smallest page number answered with success and no items, 0 if none
  overlapServed, \* whether a merged page repeated an id the collection already held
  failed,       \* how the last completed next-page fetch failed, and for which page
  cursorSane,   \* whether every cursor taken from a response had 1 <= currentPage <= totalPages
  merged,       \* the page numbers whose response was put into the collection
  echoed,       \* whether every such response reported the page number asked for
  userQuestion, aiAnswer, askingQuestion, qaError,
  last          \* the event handled by the last step

vars == <<currentNewsIndex, currentView, startX, startY, isDragging,
          news, isInitialLoading, isFetchingMore, isBriefLoading,
          error, briefError, dailyBrief,
          currentPage, totalPages, totalNewsCount,
          backendUrl, backend, pointer, initPc, pending, emptyPage, overlapServed, failed, cursorSane, merged, echoed,
          userQuestion, aiAnswer, askingQuestion, qaError, last>>

gestureVars == <<startX, startY, isDragging>>
historyVars == <<emptyPage, overlapServed, failed, cursorSane, merged, echoed>>
qaVars == <<userQuestion, aiAnswer, askingQuestion, qaError>>
cursorVars == <<currentPage, totalPages, totalNewsCount>>
initVars == <<isInitialLoading, isBriefLoading, error, briefError, dailyBrief,
              backendUrl, backend, pointer, initPc>>

(* ------------------------------- helpers -------------------------------- *)
Abs(x) == IF x < 0 THEN -x ELSE x

Range(s, n) == [i \in 1..n |-> s + i - 1]

Ids(seq) == {seq[i] : i \in 1..Len(seq)}

MaxOf(S) == CHOOSE m \in S : \A x \in S : x <= m

\* the id the backend gives to its next unseen article
FreshId(seq) == IF seq = <<>> THEN 1 ELSE MaxOf(Ids(seq)) + 1

NoDuplicates(seq) == \A i, j \in 1..Len(seq) : seq[i] = seq[j] => i = j

IsPrefix(s, t) == Len(s) <= Len(t) /\ \A i \in 1..Len(s) : s[i] = t[i]

RemoveAt(seq, i) == [j \in 1..(Len(seq) - 1) |-> IF j < i THEN seq[j] ELSE seq[j + 1]]

(* ------------------------------ the backend ----------------------------- *)
FailKinds == {"reject", "httpError", "badJson"}

Reply(kind, status, items, cp, tp, tn) ==
  [kind |-> kind, status |-> status, news |-> items,
   currentPage |-> cp, totalPages |-> tp, totalNews |-> tn]

FailReplies == {Reply(k, "none", <<>>, 1, 1, 0) : k \in FailKinds}

\* responses of /api/main_feed?page=p, given what the session has received
FeedReplies(p, got) ==
  FailReplies
  \cup {Reply("payload", "error", <<>>, 1, 1, 0)}
  \cup {Reply("payload", "success", <<>>, 1, 1, 0)}
  \cup CASE backend = "batch" ->
            {Reply("payload", "success", Range((q - 1) * BATCH_SIZE + 1, BATCH_SIZE), q, BatchPages,
                   BatchPages * BATCH_SIZE) : q \in {x \in {p} : x <= BatchPages}}
         [] backend = "static" ->
            {Reply("payload", "success", Range(1, StaticLen), 1, 1, StaticLen) :
               q \in {x \in {p} : x = 1}}
         [] OTHER ->
            {Reply("payload", "success", Range(FreshId(got) - t[1], t[2]), t[3], t[4],
                   t[4] * BATCH_SIZE) :
               t \in {u \in Overlaps \X (PageLens \ {0}) \X (1..MaxPage) \X (1..MaxPage) :
                        /\ Len(got) + u[2] <= MaxNews
                        /\ FreshId(got) - u[1] >= 1}}

BriefReplies == FailKinds \cup {"success", "error"}

NoReply == Reply("none", "none", <<>>, 0, 0, 0)
NotFailed == [page |-> 0, how |-> "none"]

\* the record of a handled event: the handler (op), the navigation function it called
\* (call) and the index it was called at (from), whether a request was issued
\* (fetch), the displacement of the gesture (dx, dy), and for a completed fetch the
\* page asked for (page), the reply (r), its outcome (reply) and that of the brief
Event(op) ==
  [op |-> op, call |-> "none", from |-> -1, fetch |-> FALSE, dx |-> 0, dy |-> 0,
   reply |-> "none", brief |-> "none", page |-> 0, r |-> NoReply, streak |-> -1]

\* the number of nextNews calls made since the initial data arrived, while nothing
\* else has happened and up to seven of them; -1 otherwise
NextStreak == IF last.streak \in 0..6 THEN last.streak + 1 ELSE -1

SaneCursor(r) == 1 <= r.currentPage /\ r.currentPage <= r.totalPages

(* ----------------------------- pure functions --------------------------- *)
\* (variant: the fetch starts one item later)
ShouldPrefetch_Strict(nextIndex, len, fetching, cp, tp) ==
  nextIndex > len - LOOKAHEAD /\ ~fetching /\ cp < tp

\* nextNews: the condition that starts a fetch of the next page
ShouldPrefetch(nextIndex, len, fetching, cp, tp) ==
  nextIndex >= len - LOOKAHEAD /\ ~fetching /\ cp < tp

\* (variant: the index moves without the bounds check)
AdvanceIndex_NoBound(index, len) == index + 1

\* (variant: the index stops where the prefetch starts)
AdvanceIndex_Lookahead(index, len) ==
  IF index + 1 < len - LOOKAHEAD THEN index + 1 ELSE index

\* (variant: the bound is the length of the first page, not of the collection)
AdvanceIndex_FirstPage(index, len) == IF index + 1 < BATCH_SIZE THEN index + 1 ELSE index

\* nextNews: the index after the call
AdvanceIndex(index, len) == IF index + 1 < len THEN index + 1 ELSE index

\* the index before, going round to the last item from the first
RetreatIndex_Wrap(prev) == IF prev > 0 THEN prev - 1 ELSE Len(news) - 1

\* prevNews: the updater given to setCurrentNewsIndex
RetreatIndex(prev) == IF prev > 0 THEN prev - 1 ELSE 0

\* (variant: a tie of the two displacements counts as horizontal)
TouchAxis_Tie(diffX, diffY) ==
  IF Abs(diffX) >= Abs(diffY)
  THEN IF Abs(diffX) > SWIPE_THRESHOLD THEN "horizontal" ELSE "none"
  ELSE IF Abs(diffY) > SWIPE_THRESHOLD THEN "vertical" ELSE "none"

\* handleTouchEnd: what the displacement is taken for
TouchAxis(diffX, diffY) ==
  IF Abs(diffX) > Abs(diffY)
  THEN IF Abs(diffX) > SWIPE_THRESHOLD THEN "horizontal" ELSE "none"
  ELSE IF Abs(diffY) > SWIPE_THRESHOLD THEN "vertical" ELSE "none"

\* handleMouseUp: what the displacement is taken for
MouseAxis(diffX) == IF Abs(diffX) > SWIPE_THRESHOLD THEN "horizontal" ELSE "none"

\* (variant: the panes wrap around)
TouchSwipeView_Wrap(view, isSwipeLeft) ==
  IF isSwipeLeft
  THEN IF view = "right" THEN "center" ELSE IF view = "center" THEN "left" ELSE "right"
  ELSE IF view = "left" THEN "center" ELSE IF view = "center" THEN "right" ELSE "left"

\* (variant: the right swipe tests for the wrong pane, so Detail cannot be left)
TouchSwipeView_Stuck(view, isSwipeLeft) ==
  IF isSwipeLeft
  THEN IF view = "right" THEN "center" ELSE IF view = "center" THEN "left" ELSE view
  ELSE IF view = "right" THEN "center" ELSE IF view = "center" THEN "right" ELSE view

\* handleTouchEnd: the pane after a horizontal swipe
TouchSwipeView(view, isSwipeLeft) ==
  IF isSwipeLeft
  THEN IF view = "right" THEN "center" ELSE IF view = "center" THEN "left" ELSE view
  ELSE IF view = "left" THEN "center" ELSE IF view = "center" THEN "right" ELSE view

\* handleMouseUp: the pane after a horizontal drag
MouseSwipeView(view, isSwipeLeft) ==
  IF isSwipeLeft
  THEN IF view = "right" THEN "center" ELSE IF view = "center" THEN "left" ELSE view
  ELSE IF view = "left" THEN "center" ELSE IF view = "center" THEN "right" ELSE view

\* the component renders the three panes (and attaches its handlers) only then
Rendered == ~isInitialLoading /\ error = "null" /\ Len(news) > 0

(* -------------------------------- Init ---------------------------------- *)
Init ==
  /\ currentNewsIndex = 0
  /\ currentView = "center"
  /\ startX = 0
  /\ startY = 0
  /\ isDragging = FALSE
  /\ news = <<>>
  /\ isInitialLoading = TRUE
  /\ isFetchingMore = FALSE
  /\ isBriefLoading = TRUE
  /\ error = "null"
  /\ briefError = "null"
  /\ dailyBrief = "null"
  /\ currentPage = 1
  /\ totalPages = 1
  /\ totalNewsCount = 0
  /\ backendUrl \in {"", "url"}
  /\ \E p \in Profiles : backend = p[1] /\ pointer = p[2]
  /\ initPc = "mount"
  /\ pending = <<>>
  /\ emptyPage = 0
  /\ overlapServed = FALSE
  /\ failed = NotFailed
  /\ cursorSane = TRUE
  /\ merged = {}
  /\ echoed = TRUE
  /\ userQuestion = ""
  /\ aiAnswer = ""
  /\ askingQuestion = FALSE
  /\ qaError = "null"
  /\ last = Event("mount")

(* ------------------------- fetchMoreNews / nextNews --------------------- *)
\* (variant: the in-flight flag is not set)
fetchMoreNews_NoFlag ==
  IF currentPage >= totalPages
  THEN UNCHANGED <<isFetchingMore, pending>>
  ELSE /\ UNCHANGED isFetchingMore
       /\ pending' = Append(pending, [nextPage |-> currentPage + 1,
                                      limit |-> BATCH_SIZE,
                                      currentPage |-> currentPage])

\* (variant: the request asks again for the page the cursor is on)
fetchMoreNews_SamePage ==
  IF isFetchingMore \/ currentPage >= totalPages
  THEN UNCHANGED <<isFetchingMore, pending>>
  ELSE /\ isFetchingMore' = TRUE
       /\ pending' = Append(pending, [nextPage |-> currentPage,
                                      limit |-> BATCH_SIZE,
                                      currentPage |-> currentPage])

\* fetchMoreNews up to its await: the guard, the flag and the request
fetchMoreNews ==
  IF isFetchingMore \/ currentPage >= totalPages
  THEN UNCHANGED <<isFetchingMore, pending>>
  ELSE /\ isFetchingMore' = TRUE
       /\ pending' = Append(pending, [nextPage |-> currentPage + 1,
                                      limit |-> BATCH_SIZE,
                                      currentPage |-> currentPage])

nextNews ==
  LET nextIndex == currentNewsIndex + 1 IN
  /\ IF ShouldPrefetch(nextIndex, Len(news), isFetchingMore, currentPage, totalPages)
     THEN fetchMoreNews
     ELSE UNCHANGED <<isFetchingMore, pending>>
  /\ currentNewsIndex' = AdvanceIndex(currentNewsIndex, Len(news))

\* (variant: going back prefetches as going forward does)
prevNews_Prefetch ==
  /\ currentNewsIndex' = RetreatIndex(currentNewsIndex)
  /\ IF ShouldPrefetch(currentNewsIndex, Len(news), isFetchingMore, currentPage, totalPages)
     THEN fetchMoreNews
     ELSE UNCHANGED <<isFetchingMore, pending>>

\* prevNews made to wait while a page is being fetched
prevNews_WaitsForFetch ==
  /\ currentNewsIndex' = IF isFetchingMore THEN currentNewsIndex
                                            ELSE RetreatIndex(currentNewsIndex)
  /\ UNCHANGED <<isFetchingMore, pending>>

prevNews ==
  /\ currentNewsIndex' = RetreatIndex(currentNewsIndex)
  /\ UNCHANGED <<isFetchingMore, pending>>

\* the items of `items` whose id is neither in `have` nor earlier in `items`
RECURSIVE NewItems(_, _)
NewItems(items, have) ==
  IF items = <<>> THEN <<>>
  ELSE IF Head(items) \in have THEN NewItems(Tail(items), have)
       ELSE <<Head(items)>> \o NewItems(Tail(items), have \cup {Head(items)})

\* (variant: arriving items whose id is already held are dropped)
fetchMoreNewsDone_Dedup(i, r) ==
  /\ IF r.kind = "payload"
     THEN IF r.status = "success" /\ Len(r.news) > 0
          THEN /\ news' = news \o NewItems(r.news, Ids(news))
               /\ currentPage' = r.currentPage
               /\ totalPages' = r.totalPages
               /\ totalNewsCount' = r.totalNews
          ELSE /\ totalPages' = pending[i].currentPage
               /\ UNCHANGED <<news, currentPage, totalNewsCount>>
     ELSE UNCHANGED <<news, currentPage, totalPages, totalNewsCount>>
  /\ isFetchingMore' = FALSE
  /\ pending' = RemoveAt(pending, i)
  /\ UNCHANGED error

\* (variant: an empty page does not end the feed)
fetchMoreNewsDone_NoClamp(i, r) ==
  /\ IF r.kind = "payload" /\ r.status = "success" /\ Len(r.news) > 0
     THEN /\ news' = news \o r.news
          /\ currentPage' = r.currentPage
          /\ totalPages' = r.totalPages
          /\ totalNewsCount' = r.totalNews
     ELSE UNCHANGED <<news, currentPage, totalPages, totalNewsCount>>
  /\ isFetchingMore' = FALSE
  /\ pending' = RemoveAt(pending, i)
  /\ UNCHANGED error

\* (variant: a failed fetch ends the feed as an empty page does)
fetchMoreNewsDone_ClampOnError(i, r) ==
  /\ IF r.kind = "payload" /\ r.status = "success" /\ Len(r.news) > 0
     THEN /\ news' = news \o r.news
          /\ currentPage' = r.currentPage
          /\ totalPages' = r.totalPages
          /\ totalNewsCount' = r.totalNews
     ELSE /\ totalPages' = pending[i].currentPage
          /\ UNCHANGED <<news, currentPage, totalNewsCount>>
  /\ isFetchingMore' = FALSE
  /\ pending' = RemoveAt(pending, i)
  /\ UNCHANGED error

\* fetchMoreNews completing, with the cursor moved to the requested page even when
\* the request failed
fetchMoreNewsDone_AdvanceOnError(i, r) ==
  /\ IF r.kind = "payload"
     THEN IF r.status = "success" /\ Len(r.news) > 0
          THEN /\ news' = news \o r.news
               /\ currentPage' = r.currentPage
               /\ totalPages' = r.totalPages
               /\ totalNewsCount' = r.totalNews
          ELSE /\ totalPages' = pending[i].currentPage
               /\ UNCHANGED <<news, currentPage, totalNewsCount>>
     ELSE /\ currentPage' = pending[i].nextPage
          /\ UNCHANGED <<news, totalPages, totalNewsCount>>
  /\ isFetchingMore' = FALSE
  /\ pending' = RemoveAt(pending, i)
  /\ UNCHANGED error

\* fetchMoreNews completing, with a catch block that sets the error state as the
\* initial load's catch block does
fetchMoreNewsDone_SetError(i, r) ==
  /\ IF r.kind = "payload"
     THEN IF r.status = "success" /\ Len(r.news) > 0
          THEN /\ news' = news \o r.news
               /\ currentPage' = r.currentPage
               /\ totalPages' = r.totalPages
               /\ totalNewsCount' = r.totalNews
          ELSE /\ totalPages' = pending[i].currentPage
               /\ UNCHANGED <<news, currentPage, totalNewsCount>>
     ELSE UNCHANGED <<news, currentPage, totalPages, totalNewsCount>>
  /\ isFetchingMore' = FALSE
  /\ pending' = RemoveAt(pending, i)
  /\ error' = IF r.kind = "payload" THEN error ELSE "exception"

\* fetchMoreNews completing, with a request for the following page started at once
\* when the merged page is not the last one
fetchMoreNewsDone_Drain(i, r) ==
  /\ IF r.kind = "payload"
     THEN IF r.status = "success" /\ Len(r.news) > 0
          THEN /\ news' = news \o r.news
               /\ currentPage' = r.currentPage
               /\ totalPages' = r.totalPages
               /\ totalNewsCount' = r.totalNews
          ELSE /\ totalPages' = pending[i].currentPage
               /\ UNCHANGED <<news, currentPage, totalNewsCount>>
     ELSE UNCHANGED <<news, currentPage, totalPages, totalNewsCount>>
  /\ IF r.kind = "payload" /\ r.status = "success" /\ Len(r.news) > 0
        /\ r.currentPage < r.totalPages
     THEN /\ isFetchingMore' = TRUE
          /\ pending' = <<[nextPage |-> r.currentPage + 1, limit |-> BATCH_SIZE,
                      currentPage |-> r.currentPage]>>
     ELSE /\ isFetchingMore' = FALSE
          /\ pending' = RemoveAt(pending, i)
  /\ UNCHANGED error

\* fetchMoreNews completing, with the arrived page put in front of the collection
fetchMoreNewsDone_Prepend(i, r) ==
  /\ IF r.kind = "payload"
     THEN IF r.status = "success" /\ Len(r.news) > 0
          THEN /\ news' = r.news \o news
               /\ currentPage' = r.currentPage
               /\ totalPages' = r.totalPages
               /\ totalNewsCount' = r.totalNews
          ELSE /\ totalPages' = pending[i].currentPage
               /\ UNCHANGED <<news, currentPage, totalNewsCount>>
     ELSE UNCHANGED <<news, currentPage, totalPages, totalNewsCount>>
  /\ isFetchingMore' = FALSE
  /\ pending' = RemoveAt(pending, i)
  /\ UNCHANGED error

\* fetchMoreNews completing, with the collection replaced by the arrived page as
\* the initial load does
fetchMoreNewsDone_Replace(i, r) ==
  /\ IF r.kind = "payload"
     THEN IF r.status = "success" /\ Len(r.news) > 0
          THEN /\ news' = r.news
               /\ currentPage' = r.currentPage
               /\ totalPages' = r.totalPages
               /\ totalNewsCount' = r.totalNews
          ELSE /\ totalPages' = pending[i].currentPage
               /\ UNCHANGED <<news, currentPage, totalNewsCount>>
     ELSE UNCHANGED <<news, currentPage, totalPages, totalNewsCount>>
  /\ isFetchingMore' = FALSE
  /\ pending' = RemoveAt(pending, i)
  /\ UNCHANGED error

\* fetchMoreNews completing, with the end-of-feed clamp one page too low
fetchMoreNewsDone_ClampBelow(i, r) ==
  /\ IF r.kind = "payload"
     THEN IF r.status = "success" /\ Len(r.news) > 0
          THEN /\ news' = news \o r.news
               /\ currentPage' = r.currentPage
               /\ totalPages' = r.totalPages
               /\ totalNewsCount' = r.totalNews
          ELSE /\ totalPages' = pending[i].currentPage - 1
               /\ UNCHANGED <<news, currentPage, totalNewsCount>>
     ELSE UNCHANGED <<news, currentPage, totalPages, totalNewsCount>>
  /\ isFetchingMore' = FALSE
  /\ pending' = RemoveAt(pending, i)
  /\ UNCHANGED error

\* fetchMoreNews completing, with the request sent again at once when it failed
fetchMoreNewsDone_Retry(i, r) ==
  /\ IF r.kind = "payload"
     THEN IF r.status = "success" /\ Len(r.news) > 0
          THEN /\ news' = news \o r.news
               /\ currentPage' = r.currentPage
               /\ totalPages' = r.totalPages
               /\ totalNewsCount' = r.totalNews
          ELSE /\ totalPages' = pending[i].currentPage
               /\ UNCHANGED <<news, currentPage, totalNewsCount>>
     ELSE UNCHANGED <<news, currentPage, totalPages, totalNewsCount>>
  /\ IF r.kind = "payload"
     THEN /\ isFetchingMore' = FALSE
          /\ pending' = RemoveAt(pending, i)
     ELSE UNCHANGED <<isFetchingMore, pending>>
  /\ UNCHANGED error

\* fetchMoreNews completing, with the end-of-feed clamp set to the page asked for
fetchMoreNewsDone_ClampToRequested(i, r) ==
  /\ IF r.kind = "payload"
     THEN IF r.status = "success" /\ Len(r.news) > 0
          THEN /\ news' = news \o r.news
               /\ currentPage' = r.currentPage
               /\ totalPages' = r.totalPages
               /\ totalNewsCount' = r.totalNews
          ELSE /\ totalPages' = pending[i].nextPage
               /\ UNCHANGED <<news, currentPage, totalNewsCount>>
     ELSE UNCHANGED <<news, currentPage, totalPages, totalNewsCount>>
  /\ isFetchingMore' = FALSE
  /\ pending' = RemoveAt(pending, i)
  /\ UNCHANGED error

\* fetchMoreNews completing, with the flag cleared at the end of the try block in
\* place of a finally block
fetchMoreNewsDone_NoFinally(i, r) ==
  /\ IF r.kind = "payload"
     THEN IF r.status = "success" /\ Len(r.news) > 0
          THEN /\ news' = news \o r.news
               /\ currentPage' = r.currentPage
               /\ totalPages' = r.totalPages
               /\ totalNewsCount' = r.totalNews
          ELSE /\ totalPages' = pending[i].currentPage
               /\ UNCHANGED <<news, currentPage, totalNewsCount>>
     ELSE UNCHANGED <<news, currentPage, totalPages, totalNewsCount>>
  /\ isFetchingMore' = (r.kind # "payload")
  /\ pending' = RemoveAt(pending, i)
  /\ UNCHANGED error

\* fetchMoreNews completing, with the item count reset when the request failed
fetchMoreNewsDone_CountOnError(i, r) ==
  /\ IF r.kind = "payload"
     THEN IF r.status = "success" /\ Len(r.news) > 0
          THEN /\ news' = news \o r.news
               /\ currentPage' = r.currentPage
               /\ totalPages' = r.totalPages
               /\ totalNewsCount' = r.totalNews
          ELSE /\ totalPages' = pending[i].currentPage
               /\ UNCHANGED <<news, currentPage, totalNewsCount>>
     ELSE /\ totalNewsCount' = 0
          /\ UNCHANGED <<news, currentPage, totalPages>>
  /\ isFetchingMore' = FALSE
  /\ pending' = RemoveAt(pending, i)
  /\ UNCHANGED error

\* fetchMoreNews completing, with the end-of-feed clamp made for an empty page
\* only, not for a payload whose status is not success
fetchMoreNewsDone_ErrorIgnored(i, r) ==
  /\ IF r.kind = "payload"
     THEN IF r.status = "success" /\ Len(r.news) > 0
          THEN /\ news' = news \o r.news
               /\ currentPage' = r.currentPage
               /\ totalPages' = r.totalPages
               /\ totalNewsCount' = r.totalNews
          ELSE IF r.status = "success"
               THEN /\ totalPages' = pending[i].currentPage
                    /\ UNCHANGED <<news, currentPage, totalNewsCount>>
               ELSE UNCHANGED <<news, currentPage, totalPages, totalNewsCount>>
     ELSE UNCHANGED <<news, currentPage, totalPages, totalNewsCount>>
  /\ isFetchingMore' = FALSE
  /\ pending' = RemoveAt(pending, i)
  /\ UNCHANGED error

\* fetchMoreNews after its await, for the i-th pending call and the reply r
fetchMoreNewsDone(i, r) ==
  /\ IF r.kind = "payload"
     THEN IF r.status = "success" /\ Len(r.news) > 0
          THEN /\ news' = news \o r.news
               /\ currentPage' = r.currentPage
               /\ totalPages' = r.totalPages
               /\ totalNewsCount' = r.totalNews
          ELSE /\ totalPages' = pending[i].currentPage
               /\ UNCHANGED <<news, currentPage, totalNewsCount>>
     ELSE UNCHANGED <<news, currentPage, totalPages, totalNewsCount>>
  /\ isFetchingMore' = FALSE
  /\ pending' = RemoveAt(pending, i)
  /\ UNCHANGED error

\* the response of a fetchMoreNews call arriving, with the index moved to the first
\* item of the page that was put into the collection
MoreNewsArrives_JumpToNew ==
  \E i \in 1..Len(pending) :
    \E r \in FeedReplies(pending[i].nextPage, news) :
      /\ fetchMoreNewsDone(i, r)
      /\ currentNewsIndex' = IF news' # news THEN Len(news) ELSE currentNewsIndex
      /\ emptyPage' = IF r.kind = "payload" /\ r.status = "success" /\ r.news = <<>>
                         /\ (emptyPage = 0 \/ pending[i].nextPage < emptyPage)
                      THEN pending[i].nextPage
                      ELSE emptyPage
      /\ overlapServed' = (overlapServed \/ (news' # news /\ Ids(r.news) \cap Ids(news) # {}))
      /\ failed' = IF r.kind \in FailKinds
                   THEN [page |-> pending[i].nextPage, how |-> "transport"]
                   ELSE IF r.status = "error"
                        THEN [page |-> pending[i].nextPage, how |-> "payload"]
                        ELSE NotFailed
      /\ cursorSane' = IF r.kind = "payload" /\ r.status = "success" /\ r.news # <<>>
                       THEN cursorSane /\ SaneCursor(r)
                       ELSE cursorSane
      /\ merged' = IF r.kind = "payload" /\ r.status = "success" /\ r.news # <<>>
                   THEN merged \cup {pending[i].nextPage}
                   ELSE merged
      /\ echoed' = IF r.kind = "payload" /\ r.status = "success" /\ r.news # <<>>
                   THEN echoed /\ r.currentPage = pending[i].nextPage
                   ELSE echoed
      /\ UNCHANGED qaVars
      /\ last' = [Event("fetchMoreDone") EXCEPT
                    !.reply = IF r.kind = "payload" THEN r.status ELSE r.kind,
                    !.page = pending[i].nextPage,
                    !.r = r]
      /\ UNCHANGED <<currentView, gestureVars, isInitialLoading,
                     isBriefLoading, briefError, dailyBrief, backendUrl, backend,
                     pointer, initPc>>

MoreNewsArrives ==
  \E i \in 1..Len(pending) :
    \E r \in FeedReplies(pending[i].nextPage, news) :
      /\ fetchMoreNewsDone(i, r)
      /\ emptyPage' = IF r.kind = "payload" /\ r.status = "success" /\ r.news = <<>>
                         /\ (emptyPage = 0 \/ pending[i].nextPage < emptyPage)
                      THEN pending[i].nextPage
                      ELSE emptyPage
      /\ overlapServed' = (overlapServed \/ (news' # news /\ Ids(r.news) \cap Ids(news) # {}))
      /\ failed' = IF r.kind \in FailKinds
                   THEN [page |-> pending[i].nextPage, how |-> "transport"]
                   ELSE IF r.status = "error"
                        THEN [page |-> pending[i].nextPage, how |-> "payload"]
                        ELSE NotFailed
      /\ cursorSane' = IF r.kind = "payload" /\ r.status = "success" /\ r.news # <<>>
                       THEN cursorSane /\ SaneCursor(r)
                       ELSE cursorSane
      /\ merged' = IF r.kind = "payload" /\ r.status = "success" /\ r.news # <<>>
                   THEN merged \cup {pending[i].nextPage}
                   ELSE merged
      /\ echoed' = IF r.kind = "payload" /\ r.status = "success" /\ r.news # <<>>
                   THEN echoed /\ r.currentPage = pending[i].nextPage
                   ELSE echoed
      /\ UNCHANGED qaVars
      /\ last' = [Event("fetchMoreDone") EXCEPT
                    !.reply = IF r.kind = "payload" THEN r.status ELSE r.kind,
                    !.page = pending[i].nextPage,
                    !.r = r]
      /\ UNCHANGED <<currentNewsIndex, currentView, gestureVars, isInitialLoading,
                     isBriefLoading, briefError, dailyBrief, backendUrl, backend,
                     pointer, initPc>>

(* ----------------------------- fetchInitialData ------------------------- *)
\* the effect run on mount without the return after the configuration test
fetchInitialData_NoReturn ==
  /\ initPc = "mount"
  /\ isInitialLoading' = TRUE
  /\ error' = "null"
  /\ initPc' = "fetching"
  /\ briefError' = "null"
  /\ last' = Event("fetchInitialData")
  /\ UNCHANGED <<currentNewsIndex, currentView, gestureVars, news, isFetchingMore,
                 isBriefLoading, dailyBrief, cursorVars, backendUrl, backend, pointer,
                 pending, historyVars>>
  /\ UNCHANGED qaVars

\* the effect run on mount, up to its await
fetchInitialData ==
  /\ initPc = "mount"
  /\ IF backendUrl = ""
     THEN /\ error' = "Configuration error"
          /\ isInitialLoading' = FALSE
          /\ initPc' = "done"
     ELSE /\ isInitialLoading' = TRUE
          /\ error' = "null"
          /\ initPc' = "fetching"
  /\ briefError' = IF backendUrl = "" THEN briefError ELSE "null"
  /\ last' = Event("fetchInitialData")
  /\ UNCHANGED <<currentNewsIndex, currentView, gestureVars, news, isFetchingMore,
                 isBriefLoading, dailyBrief, cursorVars, backendUrl, backend, pointer,
                 pending, historyVars>>
  /\ UNCHANGED qaVars

\* fetchInitialData after Promise.all, with the else branch of the status test
\* missing: a non-success payload sets no error
fetchInitialDataDone_NoPayloadError(f, b) ==
  LET rejected == f.kind = "reject" \/ b = "reject"
      feedThrows == rejected \/ f.kind \in {"httpError", "badJson"}
      feedOk == ~feedThrows /\ f.status = "success"
      briefThrows == ~feedThrows /\ b = "badJson"
  IN
  /\ IF feedOk
     THEN /\ news' = f.news
          /\ currentPage' = f.currentPage
          /\ totalPages' = f.totalPages
          /\ totalNewsCount' = f.totalNews
     ELSE UNCHANGED <<news, currentPage, totalPages, totalNewsCount>>
  /\ error' = IF feedThrows \/ briefThrows THEN "exception" ELSE error
  /\ dailyBrief' = IF ~feedThrows /\ b = "success" THEN "brief" ELSE dailyBrief
  /\ briefError' = IF ~feedThrows /\ b = "error" THEN "message"
                   ELSE IF ~feedThrows /\ b = "httpError" THEN "Brief not available"
                   ELSE briefError
  /\ isInitialLoading' = FALSE
  /\ isBriefLoading' = FALSE

\* fetchInitialData after Promise.all, with the page count of the response not taken
fetchInitialDataDone_NoTotalPages(f, b) ==
  LET rejected == f.kind = "reject" \/ b = "reject"
      feedThrows == rejected \/ f.kind \in {"httpError", "badJson"}
      feedOk == ~feedThrows /\ f.status = "success"
      briefThrows == ~feedThrows /\ b = "badJson"
  IN
  /\ IF feedOk
     THEN /\ news' = f.news
          /\ currentPage' = f.currentPage
          /\ totalNewsCount' = f.totalNews
          /\ UNCHANGED totalPages
     ELSE UNCHANGED <<news, currentPage, totalPages, totalNewsCount>>
  /\ error' = IF feedThrows \/ briefThrows THEN "exception"
              ELSE IF ~feedOk THEN "Failed to fetch main feed data."
              ELSE error
  /\ dailyBrief' = IF ~feedThrows /\ b = "success" THEN "brief" ELSE dailyBrief
  /\ briefError' = IF ~feedThrows /\ b = "error" THEN "message"
                   ELSE IF ~feedThrows /\ b = "httpError" THEN "Brief not available"
                   ELSE briefError
  /\ isInitialLoading' = FALSE
  /\ isBriefLoading' = FALSE

\* fetchInitialData after Promise.all, for the feed reply f and the brief reply b
fetchInitialDataDone(f, b) ==
  LET rejected == f.kind = "reject" \/ b = "reject"
      feedThrows == rejected \/ f.kind \in {"httpError", "badJson"}
      feedOk == ~feedThrows /\ f.status = "success"
      briefThrows == ~feedThrows /\ b = "badJson"
  IN
  /\ IF feedOk
     THEN /\ news' = f.news
          /\ currentPage' = f.currentPage
          /\ totalPages' = f.totalPages
          /\ totalNewsCount' = f.totalNews
     ELSE UNCHANGED <<news, currentPage, totalPages, totalNewsCount>>
  /\ error' = IF feedThrows \/ briefThrows THEN "exception"
              ELSE IF ~feedOk THEN "Failed to fetch main feed data."
              ELSE error
  /\ dailyBrief' = IF ~feedThrows /\ b = "success" THEN "brief" ELSE dailyBrief
  /\ briefError' = IF ~feedThrows /\ b = "error" THEN "message"
                   ELSE IF ~feedThrows /\ b = "httpError" THEN "Brief not available"
                   ELSE briefError
  /\ isInitialLoading' = FALSE
  /\ isBriefLoading' = FALSE

InitialDataArrives ==
  /\ initPc = "fetching"
  /\ \E f \in FeedReplies(1, <<>>), b \in BriefReplies :
       /\ fetchInitialDataDone(f, b)
       /\ last' = [Event("initialDataDone") EXCEPT
                     !.reply = IF f.kind = "payload" THEN f.status ELSE f.kind,
                     !.brief = b,
                     !.page = 1,
                     !.r = f,
                     !.streak = 0]
       /\ cursorSane' = IF f.kind = "payload" /\ f.status = "success" /\ b # "reject"
                        THEN SaneCursor(f) ELSE cursorSane
       /\ merged' = IF f.kind = "payload" /\ f.status = "success" /\ b # "reject"
                    THEN {1} ELSE merged
       /\ echoed' = IF f.kind = "payload" /\ f.status = "success" /\ b # "reject"
                    THEN f.currentPage = 1 ELSE echoed
       /\ emptyPage' = IF f.kind = "payload" /\ f.status = "success" /\ f.news = <<>>
                          /\ b # "reject"
                       THEN 1 ELSE emptyPage
  /\ initPc' = "done"
  /\ UNCHANGED <<currentNewsIndex, currentView, gestureVars, isFetchingMore,
                 backendUrl, backend, pointer, pending, overlapServed, failed>>
  /\ UNCHANGED qaVars

(* ------------------------------- gestures ------------------------------- *)
handleTouchStart(x, y) ==
  /\ Rendered
  /\ startX' = x
  /\ startY' = y
  /\ isDragging' = TRUE
  /\ last' = Event("touchStart")
  /\ UNCHANGED <<currentNewsIndex, currentView, news, isFetchingMore, cursorVars,
                 initVars, pending, historyVars>>
  /\ UNCHANGED qaVars

\* handleTouchEnd without the test of the pane before nextNews and prevNews
handleTouchEnd_AnyPane(endX, endY) ==
  LET diffX == startX - endX
      diffY == startY - endY
      axis == TouchAxis(diffX, diffY)
      ev == [Event("touchEnd") EXCEPT !.dx = diffX, !.dy = diffY]
  IN
  /\ Rendered
  /\ IF ~isDragging
     THEN /\ last' = Event("touchEndIgnored")
          /\ UNCHANGED <<currentNewsIndex, currentView, isFetchingMore, pending, isDragging>>
     ELSE /\ CASE axis = "horizontal" ->
                  /\ currentView' = TouchSwipeView(currentView, diffX > 0)
                  /\ UNCHANGED <<currentNewsIndex, isFetchingMore, pending>>
                  /\ last' = ev
               [] axis = "vertical" /\ diffY > 0 ->
                  /\ nextNews
                  /\ UNCHANGED currentView
                  /\ last' = [ev EXCEPT !.call = "nextNews",
                                        !.from = currentNewsIndex,
                                        !.fetch = Len(pending') > Len(pending),
                                        !.streak = NextStreak]
               [] axis = "vertical" /\ diffY <= 0 ->
                  /\ prevNews
                  /\ UNCHANGED currentView
                  /\ last' = [ev EXCEPT !.call = "prevNews",
                                        !.from = currentNewsIndex,
                                        !.fetch = Len(pending') > Len(pending)]
               [] OTHER ->
                  /\ UNCHANGED <<currentNewsIndex, currentView, isFetchingMore, pending>>
                  /\ last' = ev
          /\ isDragging' = FALSE
  /\ UNCHANGED <<startX, startY, news, cursorVars, initVars, historyVars>>
  /\ UNCHANGED qaVars

handleTouchEnd(endX, endY) ==
  LET diffX == startX - endX
      diffY == startY - endY
      axis == TouchAxis(diffX, diffY)
      ev == [Event("touchEnd") EXCEPT !.dx = diffX, !.dy = diffY]
  IN
  /\ Rendered
  /\ IF ~isDragging
     THEN /\ last' = Event("touchEndIgnored")
          /\ UNCHANGED <<currentNewsIndex, currentView, isFetchingMore, pending, isDragging>>
     ELSE /\ CASE axis = "horizontal" ->
                  /\ currentView' = TouchSwipeView(currentView, diffX > 0)
                  /\ UNCHANGED <<currentNewsIndex, isFetchingMore, pending>>
                  /\ last' = ev
               [] axis = "vertical" /\ currentView = "center" /\ diffY > 0 ->
                  /\ nextNews
                  /\ UNCHANGED currentView
                  /\ last' = [ev EXCEPT !.call = "nextNews",
                                        !.from = currentNewsIndex,
                                        !.fetch = Len(pending') > Len(pending),
                                        !.streak = NextStreak]
               [] axis = "vertical" /\ currentView = "center" /\ diffY <= 0 ->
                  /\ prevNews
                  /\ UNCHANGED currentView
                  /\ last' = [ev EXCEPT !.call = "prevNews",
                                        !.from = currentNewsIndex,
                                        !.fetch = Len(pending') > Len(pending)]
               [] OTHER ->
                  /\ UNCHANGED <<currentNewsIndex, currentView, isFetchingMore, pending>>
                  /\ last' = ev
          /\ isDragging' = FALSE
  /\ UNCHANGED <<startX, startY, news, cursorVars, initVars, historyVars>>
  /\ UNCHANGED qaVars

handleMouseDown(x, y) ==
  /\ Rendered
  /\ startX' = x
  /\ isDragging' = TRUE
  /\ last' = Event("mouseDown")
  /\ UNCHANGED <<currentNewsIndex, currentView, startY, news, isFetchingMore, cursorVars,
                 initVars, pending, historyVars>>
  /\ UNCHANGED qaVars

handleMouseUp(endX, endY) ==
  LET diffX == startX - endX IN
  /\ Rendered
  /\ IF ~isDragging
     THEN /\ last' = Event("mouseUpIgnored")
          /\ UNCHANGED <<currentView, isDragging>>
     ELSE /\ currentView' = IF MouseAxis(diffX) = "horizontal"
                            THEN MouseSwipeView(currentView, diffX > 0)
                            ELSE currentView
          /\ isDragging' = FALSE
          /\ last' = [Event("mouseUp") EXCEPT !.dx = diffX, !.dy = Down(pointer)[2] - endY]
  /\ UNCHANGED <<currentNewsIndex, startX, startY, news, isFetchingMore,
                 cursorVars, initVars, pending, historyVars>>
  /\ UNCHANGED qaVars

(* -------------------------------- buttons ------------------------------- *)
\* the "next" button of the feed pane
ClickNext ==
  /\ Rendered
  /\ currentView = "center"
  /\ ~(currentNewsIndex = Len(news) - 1 /\ currentPage >= totalPages)
  /\ nextNews
  /\ last' = [Event("clickNext") EXCEPT !.call = "nextNews",
                                        !.from = currentNewsIndex,
                                        !.fetch = Len(pending') > Len(pending),
                                        !.streak = NextStreak]
  /\ UNCHANGED <<currentView, gestureVars, news, cursorVars, initVars, historyVars>>
  /\ UNCHANGED qaVars

\* the "previous" button of the feed pane
ClickPrev ==
  /\ Rendered
  /\ currentView = "center"
  /\ currentNewsIndex # 0
  /\ prevNews
  /\ last' = [Event("clickPrev") EXCEPT !.call = "prevNews",
                                        !.from = currentNewsIndex,
                                        !.fetch = Len(pending') > Len(pending)]
  /\ UNCHANGED <<currentView, gestureVars, news, cursorVars, initVars, historyVars>>
  /\ UNCHANGED qaVars

\* (variant: every pane shows a button to each of the other two)
ButtonTargets_All(view) == {"center", "left", "right"} \ {view}

\* the pane a navigation button of the pane `view` leads to
ButtonTargets(view) == IF view = "center" THEN {"right", "left"} ELSE {"center"}

ClickView(target) ==
  /\ Rendered
  /\ target \in ButtonTargets(currentView)
  /\ currentView' = target
  /\ last' = Event("clickView")
  /\ UNCHANGED <<currentNewsIndex, gestureVars, news, isFetchingMore, cursorVars,
                 initVars, pending, historyVars>>
  /\ UNCHANGED qaVars

(* ------------------------------- question ------------------------------- *)
\* responses of /api/ask
AskReplies == FailKinds \cup {"success", "error"}

\* onChange of the question box of the detail pane
TypeQuestion(text) ==
  /\ Rendered
  /\ currentView = "left"
  /\ text # userQuestion
  /\ userQuestion' = text
  /\ last' = Event("typeQuestion")
  /\ UNCHANGED <<currentNewsIndex, currentView, gestureVars, news, isFetchingMore,
                 cursorVars, initVars, pending, historyVars, aiAnswer, askingQuestion,
                 qaError>>

\* handleAskQuestion up to its await; the button is disabled while a question is
\* being asked and while the box is empty
handleAskQuestion ==
  /\ Rendered
  /\ currentView = "left"
  /\ ~askingQuestion
  /\ userQuestion # ""
  /\ IF backendUrl = ""
     THEN /\ qaError' = "Configuration error"
          /\ UNCHANGED <<askingQuestion, aiAnswer>>
     ELSE /\ askingQuestion' = TRUE
          /\ qaError' = "null"
          /\ aiAnswer' = ""
  /\ last' = Event("askQuestion")
  /\ UNCHANGED <<currentNewsIndex, currentView, gestureVars, news, isFetchingMore,
                 cursorVars, initVars, pending, historyVars, userQuestion>>

\* handleAskQuestion after its await, for the reply a
handleAskQuestionDone(a) ==
  /\ aiAnswer' = IF a = "success" THEN "answer" ELSE aiAnswer
  /\ qaError' = IF a = "success" THEN qaError
                ELSE IF a = "error" THEN "message" ELSE "exception"
  /\ askingQuestion' = FALSE

AnswerArrives ==
  /\ askingQuestion
  /\ \E a \in AskReplies :
       /\ handleAskQuestionDone(a)
       /\ last' = [Event("askDone") EXCEPT !.reply = a]
  /\ UNCHANGED <<currentNewsIndex, currentView, gestureVars, news, isFetchingMore,
                 cursorVars, initVars, pending, historyVars, userQuestion>>

(* --------------------------------- Next --------------------------------- *)
Next ==
  \/ fetchInitialData
  \/ InitialDataArrives
  \/ MoreNewsArrives
  \/ \E d \in Downs(pointer) : handleTouchStart(d[1], d[2])
  \/ \E u \in Ups(pointer) : handleTouchEnd(u[1], u[2])
  \/ \E d \in Downs(pointer) : handleMouseDown(d[1], d[2])
  \/ \E u \in Ups(pointer) : handleMouseUp(u[1], u[2])
  \/ ClickNext
  \/ ClickPrev
  \/ \E t \in {"center", "left", "right"} : ClickView(t)
  \/ \E text \in Questions(pointer) : TypeQuestion(text)
  \/ handleAskQuestion
  \/ AnswerArrives

Spec == Init /\ [][Next]_vars

(* ------------------------------ the claims ------------------------------ *)
\* the panes by the names of the specification
PaneOf(view) ==
  CASE view = "right" -> "Brief" [] view = "center" -> "Feed" [] OTHER -> "Detail"

\* the pane a horizontal gesture leads to; dir is "Left" or "Right"
PaneTable(pane, dir) ==
  CASE pane = "Feed" /\ dir = "Left" -> "Detail"
    [] pane = "Feed" /\ dir = "Right" -> "Brief"
    [] pane = "Detail" /\ dir = "Right" -> "Feed"
    [] pane = "Brief" /\ dir = "Left" -> "Feed"
    [] OTHER -> pane

\* a displacement is (start - end): positive dx is a movement to the left
DirOf(dx) == IF dx > 0 THEN "Left" ELSE "Right"
IsHorizontal(dx, dy) == Abs(dx) > Abs(dy) /\ Abs(dx) > 50
IsVertical(dx, dy) == Abs(dy) >= Abs(dx) /\ Abs(dy) > 50

\* this step issued a request for a next page
IssuesFetch == Len(pending') > Len(pending)

\* C1: once an item is loaded, 0 <= activeIndex < length(FeedCollection) in every
\* reachable state, whatever advance, retreat and page-fetch completions interleave.
C1_ActiveIndexInBounds ==
  Len(news) > 0 => (0 <= currentNewsIndex /\ currentNewsIndex < Len(news))

\* an advance has been handled at the last index of a collection that grew by a merge
C1_Witness ==
  /\ last.call = "nextNews"
  /\ Len(news) > BATCH_SIZE
  /\ currentNewsIndex = Len(news) - 1

\* C2: at most one next-page request is outstanding at any instant, and while one
\* is outstanding the in-flight flag is set, however many advances are handled.
C2_AtMostOneFetchInFlight ==
  /\ Len(pending) <= 1
  /\ isFetchingMore <=> Len(pending) = 1

\* an advance has been handled while a request was already outstanding
C2_Witness ==
  /\ last.call = "nextNews"
  /\ ~last.fetch
  /\ Len(pending) = 1
  /\ currentPage < totalPages
  /\ currentNewsIndex + 1 >= Len(news) - 3

\* C3 as stated: the collection never holds two items with the same id.
C3_NoDuplicateIds == NoDuplicates(news)

\* C3 amended: merged pages are appended whole, so the collection is free of
\* duplicate ids exactly as long as no merged page repeated an id it already held.
C3_DuplicatesIffOverlap == NoDuplicates(news) <=> ~overlapServed

\* a page overlapping the collection has been merged
C3_Witness ==
  /\ last.op = "fetchMoreDone"
  /\ last.reply = "success"
  /\ overlapServed
  /\ ~NoDuplicates(news)

\* C4: once a page N has been answered successfully with no items, no request
\* for a page greater than N is issued.
C4_NoFetchBeyondEmptyPage ==
  (emptyPage > 0 /\ last.fetch) => pending[Len(pending)].nextPage <= emptyPage

\* an advance at the end of the collection has been handled after an empty page
C4_Witness ==
  /\ emptyPage > 1
  /\ last.call = "nextNews"
  /\ currentNewsIndex = Len(news) - 1

\* C5: a retreat issues no request and leaves the in-flight flag, the cursor and
\* the collection unchanged.
C5_RetreatOnlyMovesIndex ==
  [][last'.call = "prevNews" =>
       /\ ~IssuesFetch
       /\ UNCHANGED <<isFetchingMore, pending, news, currentPage, totalPages,
                      totalNewsCount>>]_vars

\* a retreat has been handled near the end of the collection, with more pages to
\* fetch and none in flight
C5_Witness ==
  /\ last.call = "prevNews"
  /\ ~isFetchingMore
  /\ currentPage < totalPages
  /\ currentNewsIndex + 1 >= Len(news) - 3
  /\ currentNewsIndex > 0

\* C6: an advance starts a fetch iff activeIndex + 1 >= length - 3, no fetch is in
\* flight and currentPage < totalPages; and after 10 initial items with
\* totalPages = 3, the k-th of seven consecutive advances leaves the index at k,
\* with a request outstanding after the seventh and none before.
C6_AdvanceFetchesIff ==
  /\ [][last'.call = "nextNews" =>
          (IssuesFetch <=> /\ currentNewsIndex + 1 >= Len(news) - 3
                           /\ ~isFetchingMore
                           /\ currentPage < totalPages)]_vars
  /\ []((last.streak >= 0 /\ Len(news) = 10 /\ totalPages = 3 /\ currentPage = 1) =>
          /\ currentNewsIndex = last.streak
          /\ Len(pending) = (IF last.streak = 7 THEN 1 ELSE 0)
          /\ last.fetch = (last.streak = 7))

\* the seventh consecutive advance after 10 initial items has been handled
C6_Witness ==
  /\ last.streak = 7
  /\ Len(news) = 10
  /\ totalPages = 3
  /\ Len(pending) = 1
  /\ currentNewsIndex = 7

\* C7: an advance moves the index by one exactly when activeIndex + 1 is below
\* the length of the collection, also when the same call starts a fetch.
C7_AdvanceMovesIndexIffLoaded ==
  [][last'.call = "nextNews" =>
       currentNewsIndex' = (IF currentNewsIndex + 1 < Len(news)
                            THEN currentNewsIndex + 1 ELSE currentNewsIndex)]_vars

\* the first advance of a session moved the index and started a fetch
C7_Witness ==
  /\ last.streak = 1
  /\ last.fetch
  /\ currentNewsIndex = 1

\* C8: a horizontal gesture, by touch or by mouse, changes the pane by the table.
C8_PaneFollowsTable ==
  [][(last'.op \in {"touchEnd", "mouseUp"} /\ IsHorizontal(last'.dx, last'.dy)) =>
       PaneOf(currentView') = PaneTable(PaneOf(currentView), DirOf(last'.dx))]_vars

\* a swipe to the left has been handled and the detail pane shows
C8_Witness ==
  /\ last.op = "touchEnd"
  /\ IsHorizontal(last.dx, last.dy)
  /\ last.dx > 0
  /\ currentView = "left"

\* what a step does with a displacement taken as horizontal, vertical or neither
AsHorizontal ==
  /\ PaneOf(currentView') = PaneTable(PaneOf(currentView), DirOf(last'.dx))
  /\ last'.call = "none"
  /\ UNCHANGED currentNewsIndex
AsVertical ==
  /\ UNCHANGED currentView
  /\ (last'.call # "none") <=> (currentView = "center")
AsNeither ==
  /\ last'.call = "none"
  /\ UNCHANGED <<currentView, currentNewsIndex>>

ByBothAxes(dx, dy) ==
  CASE IsHorizontal(dx, dy) -> AsHorizontal
    [] IsVertical(dx, dy) -> AsVertical
    [] OTHER -> AsNeither

\* C9 as stated: on the touch and on the mouse path a displacement is horizontal
\* iff |dx| > |dy| and |dx| > 50, vertical iff |dy| >= |dx| and |dy| > 50.
C9_BothPathsClassifyByBothAxes ==
  [][last'.op \in {"touchEnd", "mouseUp"} => ByBothAxes(last'.dx, last'.dy)]_vars

\* C9 amended: the touch path classifies as stated; the mouse path looks at dx
\* alone: horizontal iff |dx| > 50, never vertical.
C9_TouchByBothAxesMouseByDx ==
  [][/\ last'.op = "touchEnd" => ByBothAxes(last'.dx, last'.dy)
     /\ last'.op = "mouseUp" =>
          IF Abs(last'.dx) > 50 THEN AsHorizontal ELSE AsNeither]_vars

\* a mouse drag that moved at least as far vertically as horizontally has changed
\* the pane
C9_Witness ==
  /\ last.op = "mouseUp"
  /\ IsVertical(last.dx, last.dy)
  /\ Abs(last.dx) > 50
  /\ currentView = "left"

\* C10: a next-page fetch that fails leaves the collection and the cursor as they
\* were and the in-flight flag cleared.
C10_FailedFetchChangesNothing ==
  [][(last'.op = "fetchMoreDone" /\ last'.reply \in FailKinds) =>
       /\ UNCHANGED <<news, currentPage, totalPages, totalNewsCount>>
       /\ ~isFetchingMore']_vars

\* a next-page fetch has failed while the cursor still names more pages
C10_Witness ==
  /\ last.op = "fetchMoreDone"
  /\ last.reply \in FailKinds
  /\ ~isFetchingMore
  /\ currentPage < totalPages
  /\ pending = <<>>


\* an advance made while no fetch is in flight and within the lookahead of the end
NearEndWhileIdle ==
  /\ last'.call = "nextNews"
  /\ ~isFetchingMore
  /\ currentNewsIndex + 1 >= Len(news) - 3

\* the step issues a request, and for the page whose fetch failed last
RequestsFailedPage == IssuesFetch /\ pending'[Len(pending')].nextPage = failed.page

\* C11 as stated: after a next-page fetch failed in any way, by a transport
\* failure or by a non-success payload, an advance made while no fetch is in flight
\* and within the lookahead of the end issues a request for the page that failed.
C11_AnyFailureIsRetried ==
  [][(failed.how # "none" /\ NearEndWhileIdle) => RequestsFailedPage]_vars

\* C11: after a next-page fetch failed in transport (rejected request, HTTP error
\* status, unparsable body), an advance made while no fetch is in flight and within
\* the lookahead of the end issues a request for the page that failed; after a
\* non-success payload no step issues a request any more.
C11_TransportFailureIsRetried ==
  /\ [][(failed.how = "transport" /\ NearEndWhileIdle) => RequestsFailedPage]_vars
  /\ [][failed.how = "payload" => ~IssuesFetch]_vars

C11_Witness ==
  /\ failed.how = "transport"
  /\ last.call = "nextNews"
  /\ last.fetch
  /\ Len(pending) = 1
  /\ pending[1].nextPage = failed.page

\* C12: at the initial load the feed and the summary fail independently: when page 1
\* arrives successfully and the summary request is rejected, answered with an HTTP
\* error or with an unparsable body, the feed error stays null and the items of
\* page 1 are loaded; when the page-1 fetch fails and the summary arrives
\* successfully, the summary is stored.
C12_PanelsFailIndependently ==
  last.op = "initialDataDone" =>
    /\ (last.reply = "success" /\ last.brief \in FailKinds)
         => (error = "null" /\ news = last.r.news)
    /\ (last.reply # "success" /\ last.brief = "success")
         => dailyBrief = "brief"

\* C13: when the page-1 fetch of the initial load fails, by a rejected request, an
\* HTTP error status, an unparsable body or a non-success payload, the collection
\* is empty afterwards and the error state is not null.
C13_FailedInitLeavesFeedEmpty ==
  (last.op = "initialDataDone" /\ last.reply \in FailKinds \cup {"error"})
    => (news = <<>> /\ error # "null")

C13_Witness ==
  /\ last.op = "initialDataDone"
  /\ last.reply = "error"
  /\ last.brief = "success"
  /\ news = <<>>
  /\ error = "Failed to fetch main feed data."

RenderState ==
  <<currentNewsIndex, currentView, news, isInitialLoading, isBriefLoading, error,
    briefError, dailyBrief, currentPage, totalPages, totalNewsCount>>

FetchFailsInTransport == last'.op = "fetchMoreDone" /\ last'.reply \in FailKinds

\* C15 as stated: a next-page fetch that fails sets an error flag the rendering layer
\* can read: the failing completion changes some state the render reads other than
\* the in-flight flag.
C15_FailedFetchSetsFlag ==
  [][FetchFailsInTransport => RenderState' # RenderState]_vars

\* C15: a next-page fetch that fails sets no error flag: the failing completion
\* leaves the error state null and changes nothing the render reads but the
\* in-flight flag.
C15_FailedFetchSetsNoFlag ==
  [][FetchFailsInTransport => (UNCHANGED RenderState /\ error' = "null")]_vars

C15_Witness ==
  /\ last.op = "fetchMoreDone"
  /\ last.reply = "httpError"
  /\ error = "null"
  /\ Rendered
  /\ ~isFetchingMore

\* C16: an advance made while a fetch is in flight issues no request and queues
\* none: it changes neither the in-flight flag, the outstanding request, the
\* collection nor the cursor, and the completion of the fetch leaves no request
\* outstanding.
C16_RequestWhileInFlightIsDropped ==
  /\ [][(last'.call = "nextNews" /\ isFetchingMore)
        => UNCHANGED <<isFetchingMore, pending, news, currentPage, totalPages,
                       totalNewsCount>>]_vars
  /\ [][last'.op = "fetchMoreDone" => (pending' = <<>> /\ ~isFetchingMore')]_vars

C16_Witness ==
  /\ last.call = "nextNews"
  /\ last.from = Len(news) - 1
  /\ ~last.fetch
  /\ isFetchingMore
  /\ Len(pending) = 1
  /\ currentPage < totalPages

\* the step merges a page that arrived with items
MergesPage ==
  /\ last'.op = "fetchMoreDone"
  /\ last'.reply = "success"
  /\ last'.r.news # <<>>

\* C17: a merged page goes whole and in its own order behind everything merged
\* before it: the collection after the merge is the collection before it followed
\* by the items of the page, so every item of the later page sits at a higher
\* position than every item of an earlier page.
C17_PagesMergeInRequestOrder ==
  [][MergesPage
     => /\ Len(news') = Len(news) + Len(last'.r.news)
        /\ \A k \in 1..Len(news) : news'[k] = news[k]
        /\ \A k \in 1..Len(last'.r.news) : news'[Len(news) + k] = last'.r.news[k]
        /\ last'.page = currentPage + 1]_vars

C17_Witness ==
  /\ last.op = "fetchMoreDone"
  /\ last.reply = "success"
  /\ last.page = 3
  /\ Len(news) = 3 * BATCH_SIZE
  /\ NoDuplicates(news)

\* C18: once the initial load is done the collection only grows at its end: the
\* collection before a step is a prefix of the collection after it.
C18_CollectionIsAppendOnly ==
  [][initPc = "done" => IsPrefix(news, news')]_vars

C18_Witness ==
  /\ initPc = "done"
  /\ last.op = "fetchMoreDone"
  /\ last.reply = "success"
  /\ backend = "any"
  /\ Len(news) > Len(last.r.news)
  /\ Len(last.r.news) > 0

\* C19 as stated: in every reachable state currentPage >= 1, totalPages >= 1 and
\* currentPage <= totalPages.
C19_CursorWithinPages ==
  /\ currentPage >= 1
  /\ totalPages >= 1
  /\ currentPage <= totalPages

\* C19: as long as every response the cursor was taken from reported
\* 1 <= currentPage <= totalPages, currentPage >= 1, totalPages >= 1 and
\* currentPage <= totalPages hold in every reachable state, the states after the
\* end-of-feed clamp included.
C19_CursorWithinPagesIfResponsesAre ==
  cursorSane => C19_CursorWithinPages

C19_Witness ==
  /\ cursorSane
  /\ last.op = "fetchMoreDone"
  /\ last.reply = "success"
  /\ last.r.news = <<>>
  /\ last.page = 3
  /\ currentPage = 2
  /\ totalPages = 2

\* C20: a retreat sets the index to the greater of 0 and the index minus one, so at
\* index 0 it stays 0, and an advance at the last loaded index leaves the index
\* where it is: neither goes round to the other end.
C20_NoWrapAtEitherEnd ==
  /\ [][last'.call = "prevNews"
        => currentNewsIndex' = (IF currentNewsIndex - 1 > 0 THEN currentNewsIndex - 1
                                                            ELSE 0)]_vars
  /\ [][(last'.call = "nextNews" /\ currentNewsIndex = Len(news) - 1)
        => currentNewsIndex' = currentNewsIndex]_vars

C20_Witness ==
  /\ last.call = "prevNews"
  /\ last.from = 0
  /\ currentNewsIndex = 0
  /\ Len(news) > 1

\* C21: Brief and Detail are never adjacent: in every step that changes the pane,
\* by a swipe, a drag or a navigation button of the pane shown, the pane before
\* the step or the pane after it is Feed.
C21_BriefAndDetailNeverAdjacent ==
  [][currentView' # currentView
     => (PaneOf(currentView) = "Feed" \/ PaneOf(currentView') = "Feed")]_vars

C21_Witness ==
  /\ last.op = "clickView"
  /\ PaneOf(currentView) = "Brief"

\* the gesture just ended, by touch or by mouse, was vertical and made in Brief or Detail
VerticalOffFeed(ops) ==
  /\ last'.op \in ops
  /\ IsVertical(last'.dx, last'.dy)
  /\ PaneOf(currentView) # "Feed"

\* C22 as stated: a vertical gesture made while the pane is Brief or Detail
\* leaves the index, the in-flight flag, the cursor and the pane unchanged, and a
\* horizontal gesture in any pane leaves the index unchanged.
C22_VerticalOnlyActsInFeed ==
  /\ [][VerticalOffFeed({"touchEnd", "mouseUp"})
        => UNCHANGED <<currentNewsIndex, isFetchingMore, pending, cursorVars,
                       currentView>>]_vars
  /\ [][(last'.op \in {"touchEnd", "mouseUp"} /\ IsHorizontal(last'.dx, last'.dy))
        => UNCHANGED currentNewsIndex]_vars

\* C22: a vertical touch gesture made while the pane is Brief or Detail leaves the
\* index, the in-flight flag, the cursor and the pane unchanged; a vertical mouse
\* drag made there leaves the index, the in-flight flag and the cursor unchanged
\* and moves the pane by its horizontal displacement alone; a horizontal gesture
\* in any pane leaves the index unchanged.
C22_VerticalTouchOnlyActsInFeed ==
  /\ [][VerticalOffFeed({"touchEnd"})
        => UNCHANGED <<currentNewsIndex, isFetchingMore, pending, cursorVars,
                       currentView>>]_vars
  /\ [][VerticalOffFeed({"mouseUp"})
        => /\ UNCHANGED <<currentNewsIndex, isFetchingMore, pending, cursorVars>>
           /\ IF Abs(last'.dx) > 50 THEN AsHorizontal ELSE AsNeither]_vars
  /\ [][(last'.op \in {"touchEnd", "mouseUp"} /\ IsHorizontal(last'.dx, last'.dy))
        => UNCHANGED currentNewsIndex]_vars

C22_Witness ==
  /\ last.op = "touchEnd"
  /\ IsVertical(last.dx, last.dy)
  /\ PaneOf(currentView) = "Detail"
  /\ last.call = "none"

\* C23: while a page fetch is in flight the previous button, the pane buttons and
\* the gesture handlers stay enabled; a retreat made then moves the index at once, a
\* horizontal swipe and a pane button move the pane at once, and none of them
\* changes the in-flight flag or the outstanding request.
C23_NavigationNeverWaitsForFetch ==
  /\ []((Rendered /\ isFetchingMore)
        => /\ \A t \in ButtonTargets(currentView) : ENABLED ClickView(t)
           /\ (currentView = "center" /\ currentNewsIndex > 0) => ENABLED ClickPrev
           /\ ENABLED handleTouchStart(Down("coarse")[1], Down("coarse")[2])
           /\ ENABLED handleTouchEnd(0, Down("coarse")[2])
           /\ ENABLED handleMouseUp(0, Down("coarse")[2]))
  /\ [][(isFetchingMore /\ last'.call = "prevNews")
        => /\ currentNewsIndex' = RetreatIndex(currentNewsIndex)
           /\ UNCHANGED <<isFetchingMore, pending>>]_vars
  /\ [][(isFetchingMore /\ last'.op = "clickView")
        => /\ currentView' # currentView
           /\ UNCHANGED <<isFetchingMore, pending>>]_vars
  /\ [][(isFetchingMore /\ last'.op \in {"touchEnd", "mouseUp"}
           /\ IsHorizontal(last'.dx, last'.dy))
        => /\ AsHorizontal
           /\ UNCHANGED <<isFetchingMore, pending>>]_vars

C23_Witness ==
  /\ last.call = "prevNews"
  /\ isFetchingMore
  /\ Len(pending) = 1
  /\ last.from > 0
  /\ currentNewsIndex = last.from - 1

\* C24: a request for a next page is issued only in the step of a nextNews call:
\* every other step leaves the outstanding request as it is, except the completion
\* of the fetch, failed or not, which leaves none outstanding and none in flight.
C24_RequestsOnlyOnAdvance ==
  [][/\ IssuesFetch => last'.call = "nextNews"
     /\ last'.call # "nextNews"
          => IF last'.op = "fetchMoreDone"
             THEN pending' = <<>> /\ ~isFetchingMore'
             ELSE UNCHANGED <<pending, isFetchingMore>>]_vars

C24_Witness ==
  /\ last.op = "fetchMoreDone"
  /\ last.reply = "reject"
  /\ failed.how = "transport"
  /\ pending = <<>>
  /\ currentNewsIndex = Len(news) - 1
  /\ currentPage < totalPages

\* the state of the scenario: two pages of ten loaded and page 3 answered empty
AfterEmptyPageThree ==
  /\ currentPage = 2
  /\ Len(news) = 2 * BATCH_SIZE
  /\ emptyPage = 3

\* C25: when a next-page fetch succeeds with no items, totalPages becomes the
\* currentPage the request was issued at, one less than the page asked for, and
\* currentPage and the collection stay as they are; with currentPage 2, 20 items and
\* an empty page 3, totalPages is 2 and an advance at index 19 issues no request
\* and leaves the index at 19.
C25_EmptyPageClampsToCurrentPage ==
  /\ [][(last'.op = "fetchMoreDone" /\ last'.reply = "success" /\ last'.r.news = <<>>)
        => /\ totalPages' = pending[1].currentPage
           /\ totalPages' = currentPage
           /\ totalPages' = last'.page - 1
           /\ UNCHANGED <<currentPage, news>>]_vars
  /\ [](AfterEmptyPageThree => totalPages = 2)
  /\ [][(AfterEmptyPageThree /\ last'.call = "nextNews" /\ currentNewsIndex = 19)
        => (~IssuesFetch /\ currentNewsIndex' = 19)]_vars

C25_Witness ==
  /\ AfterEmptyPageThree
  /\ totalPages = 2
  /\ last.call = "nextNews"
  /\ last.from = 19
  /\ currentNewsIndex = 19
  /\ ~last.fetch
  /\ pending = <<>>

Views == {"right", "center", "left"}

\* the panes at most two horizontal touch swipes away from view
SwipeReach(view) ==
  LET step(S) == S \cup {TouchSwipeView(v, d) : v \in S, d \in BOOLEAN}
  IN step(step({view}))

\* the panes at most two horizontal mouse drags away from view
DragReach(view) ==
  LET step(S) == S \cup {MouseSwipeView(v, d) : v \in S, d \in BOOLEAN}
  IN step(step({view}))

\* C26: the pane is Feed at the start, and in every state in which the panes are
\* rendered each of the three panes is at most two horizontal gestures away: a
\* touch can always be started, and a touch that has started can be ended as a
\* left or as a right swipe, which moves the pane as the handler prescribes.
C26_EveryPaneStaysReachable ==
  /\ (initPc = "mount" => PaneOf(currentView) = "Feed")
  /\ Rendered
       => /\ SwipeReach(currentView) = Views
          /\ DragReach(currentView) = Views
          /\ ENABLED (handleTouchStart(Down("coarse")[1], Down("coarse")[2]) /\ isDragging')
          /\ isDragging
               => \A d \in BOOLEAN :
                    ENABLED (/\ handleTouchEnd(IF d THEN startX - 2 * SWIPE_THRESHOLD
                                                    ELSE startX + 2 * SWIPE_THRESHOLD, startY)
                             /\ currentView' = TouchSwipeView(currentView, d))

C26_Witness ==
  /\ last.op = "touchEnd"
  /\ IsHorizontal(last.dx, last.dy)
  /\ last.dx < 0
  /\ PaneOf(currentView) = "Feed"

\* C27: when BACKEND_URL is not set no request is ever issued, neither for page 1
\* and the brief nor for a later page, the collection stays empty, and once the
\* mount effect has run the configuration error is reported.
C27_NoSessionWithoutBackendUrl ==
  backendUrl = ""
    => /\ initPc # "fetching"
       /\ pending = <<>>
       /\ ~isFetchingMore
       /\ news = <<>>
       /\ dailyBrief = "null"
       /\ initPc = "done" => (error = "Configuration error" /\ ~isInitialLoading)

C27_Witness ==
  /\ backendUrl = ""
  /\ initPc = "done"
  /\ last.op = "fetchInitialData"
  /\ error = "Configuration error"

\* C28: no item is lost: the ids of every successful page-1 response and of every
\* successful next-page response are in the collection when the response has been
\* handled, and no step removes an id from the collection.
C28_NoItemLost ==
  [][/\ (last'.op \in {"initialDataDone", "fetchMoreDone"} /\ last'.reply = "success")
          => Ids(last'.r.news) \subseteq Ids(news')
     /\ Ids(news) \subseteq Ids(news')]_vars

\* a session against the backend that serves BatchPages pages
LiveInit == Init /\ backend = "batch"

\* the steps of a session worked by the buttons
LiveNext ==
  \/ fetchInitialData
  \/ InitialDataArrives
  \/ MoreNewsArrives
  \/ ClickNext
  \/ ClickPrev
  \/ \E t \in {"center", "left", "right"} : ClickView(t)

\* every fetchMoreNews request is answered in the end
LiveSpec == LiveInit /\ [][LiveNext]_vars /\ WF_vars(MoreNewsArrives)

\* C29: when every request is answered in the end, a fetch in flight always leads
\* to no fetch in flight, whatever the answer is.
C29_InFlightLeadsToIdle == isFetchingMore ~> ~isFetchingMore

C29_Witness ==
  /\ last.op = "fetchMoreDone"
  /\ last.reply = "badJson"
  /\ ~isFetchingMore
  /\ pending = <<>>
  /\ backend = "batch"

\* a next-page request answered with a page of items
MoreNewsArrivesOk ==
  /\ MoreNewsArrives
  /\ last'.reply = "success"
  /\ last'.r.news # <<>>

\* the steps of a session in which every next-page fetch succeeds with items
ProgressNext ==
  \/ fetchInitialData
  \/ InitialDataArrives
  \/ MoreNewsArrivesOk
  \/ \E d \in Downs(pointer) : handleTouchStart(d[1], d[2])
  \/ \E u \in Ups(pointer) : handleTouchEnd(u[1], u[2])
  \/ ClickNext
  \/ ClickPrev
  \/ \E t \in {"center", "left", "right"} : ClickView(t)

\* every fetchMoreNews request is answered in the end, with a page of items
ProgressSpec == LiveInit /\ [][ProgressNext]_vars /\ WF_vars(MoreNewsArrivesOk)

\* the index is the last loaded one and the cursor says there are more pages
AtBoundary ==
  /\ Rendered
  /\ currentNewsIndex = Len(news) - 1
  /\ currentPage < totalPages

\* the last step was a nextNews call that moved the index up
Advanced == last.call = "nextNews" /\ currentNewsIndex > last.from

\* C30: when every next-page fetch succeeds with items and the user calls nextNews
\* again and again, the index being the last loaded one while the cursor says there
\* are more pages always leads to a nextNews call that moves the index up.
C30_BoundaryIsNotAStop ==
  ([]<><<last'.call = "nextNews">>_vars) => (AtBoundary ~> Advanced)

C30_Witness ==
  /\ Advanced
  /\ last.from = BATCH_SIZE - 1
  /\ currentPage = 2
  /\ Len(news) = 2 * BATCH_SIZE

\* the step is the completion of a page fetch, of page 1 or of a later page
PageFetchCompletes == last'.op \in {"initialDataDone", "fetchMoreDone"}

\* C31 as stated: the cursor changes only in the completion step of a page fetch
\* that succeeded; every other step, the completion of a fetch that did not
\* succeed included, leaves currentPage, totalPages and totalNewsCount unchanged.
C31_CursorChangesOnlyOnSuccess ==
  [][cursorVars' # cursorVars => (PageFetchCompletes /\ last'.reply = "success")]_vars

\* C31: the cursor changes only in the completion step of a page fetch answered
\* with a payload: a nextNews or prevNews call, a gesture, a pane button, typing and
\* submitting a question, the arrival of an answer, the start of a fetch and the
\* completion of a fetch that failed in transport leave currentPage, totalPages and
\* totalNewsCount unchanged; a next-page payload whose status is not success
\* changes totalPages alone, to currentPage.
C31_CursorChangesOnlyOnPayload ==
  [][/\ cursorVars' # cursorVars
          => (PageFetchCompletes /\ last'.reply \in {"success", "error"})
     /\ (last'.op = "fetchMoreDone" /\ last'.reply = "error")
          => (totalPages' = currentPage /\ UNCHANGED <<currentPage, totalNewsCount>>)
     /\ (last'.op = "initialDataDone" /\ last'.reply = "error")
          => UNCHANGED cursorVars]_vars

C31_Witness ==
  /\ last.op = "askDone"
  /\ last.reply = "success"
  /\ aiAnswer = "answer"
  /\ ~askingQuestion
  /\ currentPage = 1
  /\ totalPages = 1

\* C32: a next-page response with HTTP success and a payload whose status is not
\* success is handled as an empty page is: totalPages becomes currentPage, nothing
\* is appended, currentPage and the item count stay, the fetch is no longer in
\* flight, and no step of the session issues a next-page request afterwards.
C32_NonSuccessPayloadEndsFeed ==
  /\ [][(last'.op = "fetchMoreDone" /\ last'.reply = "error")
        => /\ totalPages' = currentPage
           /\ UNCHANGED <<news, currentPage, totalNewsCount>>
           /\ ~isFetchingMore']_vars
  /\ [](failed.how = "payload" => (currentPage >= totalPages /\ pending = <<>>))
  /\ [][failed.how = "payload" => ~IssuesFetch]_vars

C32_Witness ==
  /\ failed.how = "payload"
  /\ last.call = "nextNews"
  /\ last.from = Len(news) - 1
  /\ ~last.fetch
  /\ ~isFetchingMore
  /\ totalPages = 1

\* C33: the completion of a page fetch, whatever its outcome, leaves the index and
\* the pane unchanged; the completion of a next-page fetch leaves the item at the
\* index the same; the index changes only in a step that calls nextNews or prevNews.
C33_CompletionKeepsIndexAndPane ==
  /\ [][PageFetchCompletes => UNCHANGED <<currentNewsIndex, currentView>>]_vars
  /\ [][last'.op = "fetchMoreDone"
        => /\ currentNewsIndex + 1 <= Len(news')
           /\ news'[currentNewsIndex' + 1] = news[currentNewsIndex + 1]]_vars
  /\ [][currentNewsIndex' # currentNewsIndex
        => last'.call \in {"nextNews", "prevNews"}]_vars

C33_Witness ==
  /\ last.op = "fetchMoreDone"
  /\ last.reply = "success"
  /\ last.r.news # <<>>
  /\ currentNewsIndex = BATCH_SIZE - 1
  /\ PaneOf(currentView) = "Detail"
  /\ Len(news) = 2 * BATCH_SIZE

\* fetchMoreNews up to its await, called from a closure of the render in which the
\* index was index0 and the in-flight flag was fetching0; currentPage and
\* totalPages are those of that render
fetchMoreNewsStale(fetching0) ==
  IF fetching0 \/ currentPage >= totalPages
  THEN UNCHANGED <<isFetchingMore, pending>>
  ELSE /\ isFetchingMore' = TRUE
       /\ pending' = Append(pending, [nextPage |-> currentPage + 1,
                                      limit |-> BATCH_SIZE,
                                      currentPage |-> currentPage])

\* nextNews called from the closure of that render
nextNewsStale(index0, fetching0) ==
  LET nextIndex == index0 + 1 IN
  /\ IF ShouldPrefetch(nextIndex, Len(news), fetching0, currentPage, totalPages)
     THEN fetchMoreNewsStale(fetching0)
     ELSE UNCHANGED <<isFetchingMore, pending>>
  /\ currentNewsIndex' = AdvanceIndex(index0, Len(news))

\* a second click on the "next" button handled before the component has rendered
\* the updates of the first one: the handler is the one of the render the first
\* click was handled in
ClickNextStale ==
  LET index0 == last.from
      fetching0 == IF last.fetch THEN FALSE ELSE isFetchingMore
  IN /\ Rendered
     /\ currentView = "center"
     /\ last.op = "clickNext"
     /\ ~(index0 = Len(news) - 1 /\ currentPage >= totalPages)
     /\ nextNewsStale(index0, fetching0)
     /\ last' = [Event("clickNextStale") EXCEPT !.call = "nextNews",
                                               !.from = index0,
                                               !.fetch = Len(pending') > Len(pending)]
     /\ UNCHANGED <<currentView, gestureVars, news, cursorVars, initVars, historyVars>>
     /\ UNCHANGED qaVars

\* the steps of a session worked by the buttons in which every next-page fetch
\* succeeds with items and two clicks on "next" can be handled in one render
StaleNext ==
  \/ fetchInitialData
  \/ InitialDataArrives
  \/ MoreNewsArrivesOk
  \/ ClickNext
  \/ ClickPrev
  \/ \E t \in {"center", "left", "right"} : ClickView(t)
  \/ ClickNextStale

StaleSpec == LiveInit /\ [][StaleNext]_vars

\* C34: even when two nextNews calls are handled in one render, at most one
\* next-page request is in flight and no page is appended to the collection twice.
C34_StaleCallsFetchOnce ==
  /\ Len(pending) <= 1
  /\ NoDuplicates(news)

\* the first half of C34 alone
C34_OneRequestInFlight == Len(pending) <= 1

\* the second half of C34 alone
C34_PageAppendedOnce == NoDuplicates(news)

\* C35: every next-page request asks for page currentPage + 1 with page size
\* BATCH_SIZE; and as long as every successful response with items has reported
\* the page that was requested, currentPage does not decrease and a request never
\* asks for a page that has been merged.
C35_RequestsNextUnmergedPage ==
  /\ [][IssuesFetch
        => /\ pending'[Len(pending')].nextPage = currentPage + 1
           /\ pending'[Len(pending')].limit = BATCH_SIZE]_vars
  /\ [][echoed' => currentPage' >= currentPage]_vars
  /\ [][(echoed /\ IssuesFetch) => pending'[Len(pending')].nextPage \notin merged]_vars

C35_Witness ==
  /\ last.call = "nextNews"
  /\ last.fetch
  /\ echoed
  /\ merged = {1, 2}
  /\ currentPage = 2
  /\ pending = <<[nextPage |-> 3, limit |-> BATCH_SIZE, currentPage |-> 2]>>

\* currentPage does not decrease, whatever the responses report
C35_PageNeverDecreases == [][currentPage' >= currentPage]_vars

=============================================================================
